---- MODULE Spec2Model ----
(***************************************************************************)
(* Credit scoring tools of fast_mcp_customer_eval.py: _sanitize_and_cast,  *)
(* _compute_scores and the two tools classify_customer / score_breakdown.  *)
(*                                                                         *)
(* Numbers.  A Python number is a record [k, n, d]:                        *)
(*   k = "num"   the rational n/d in lowest terms (d = 1 for an int),      *)
(*   k = "huge"  an int too large for a double (10**400),                  *)
(*   k = "inf"   float('inf'),   k = "nan"  float('nan'),                  *)
(*   k = "text"  a value that is no number (the string 'abc').             *)
(* Doubles are modelled by exact rationals; the input grids below are      *)
(* chosen so that the double arithmetic of the source is exact on them.    *)
(* Money is counted in units of 10^6 VND, so that the caps fit the model   *)
(* checker's integers (ASSET_CAP 10^10 VND = 10000 units, SALARY_CAP       *)
(* 2*10^8 VND = 200 units); every use of a money amount in the source is a *)
(* sign test or a ratio to a cap, both independent of the unit.            *)
(***************************************************************************)
EXTENDS Integers, Sequences, FiniteSets, TLC

VARIABLES WEIGHTS, request, tool, response

vars == <<WEIGHTS, request, tool, response>>

\* ----- configuration (source lines 22-27) -----
ASSET_CAP == 10000
SALARY_CAP == 200
EXP_CAP == 40
BASE_SCORE == 500
BONUS_POOL == 300

\* ----- bounds of the model -----
\* Number of grid steps above each cap (and above the last age threshold).
MaxOver == 1

\* ----- numbers -----
Abs(x) == IF x < 0 THEN -x ELSE x

RECURSIVE Gcd(_, _)
Gcd(a, b) == IF b = 0 THEN a ELSE Gcd(b, a % b)

\* The rational n/d (d # 0) in lowest terms with a positive denominator.
Num(n, d) ==
    LET g == Gcd(Abs(n), Abs(d))
        s == IF d < 0 THEN -1 ELSE 1
    IN  [k |-> "num", n |-> (s * n) \div g, d |-> (s * d) \div g]

Huge == [k |-> "huge", n |-> 0, d |-> 1]
Inf  == [k |-> "inf",  n |-> 0, d |-> 1]
NaN  == [k |-> "nan",  n |-> 0, d |-> 1]
Text == [k |-> "text", n |-> 0, d |-> 1]

\* Python's x < y on ints and floats (never asked between Huge and Inf here).
PyLess(x, y) ==
    IF x.k = "nan" \/ y.k = "nan" THEN FALSE
    ELSE IF x.k \in {"inf", "huge"} THEN FALSE
    ELSE IF y.k \in {"inf", "huge"} THEN TRUE
    ELSE x.n * y.d < y.n * x.d

\* Python's x <= y.
PyLe(x, y) ==
    IF x.k = "nan" \/ y.k = "nan" THEN FALSE
    ELSE IF y.k \in {"inf", "huge"} THEN TRUE
    ELSE IF x.k \in {"inf", "huge"} THEN FALSE
    ELSE x.n * y.d <= y.n * x.d

\* max(a, b) and min(a, b) of Python: the first argument is kept unless the
\* second compares greater (smaller), so a NaN second argument is dropped.
PyMax(a, b) == IF PyLess(a, b) THEN b ELSE a
PyMin(a, b) == IF PyLess(b, a) THEN b ELSE a

\* x / c for a positive finite c, x * y and x + y on floats.
FDiv(x, c) == IF x.k = "num" THEN Num(x.n * c.d, x.d * c.n) ELSE x
FMul(x, y) == Num(x.n * y.n, x.d * y.d)
FAdd(x, y) == Num(x.n * y.d + y.n * x.d, x.d * y.d)

\* floor(n / d) for d > 0.
Floor(n, d) == n \div d

\* Rounding with ties away from zero, as round() did in Python 2.
PyRound_HalfUp(x) ==
    LET f    == Floor(x.n, x.d)
        twoR == 2 * (x.n - f * x.d)
    IN  IF twoR < x.d THEN f ELSE f + 1

\* round(x) of Python 3 on a finite float: nearest integer, ties to even.
PyRound(x) ==
    LET f    == Floor(x.n, x.d)
        twoR == 2 * (x.n - f * x.d)
    IN  IF twoR < x.d THEN f
        ELSE IF twoR > x.d THEN f + 1
        ELSE IF f % 2 = 0 THEN f ELSE f + 1

\* round(x, digits) of Python 3 for display, scale = 10^digits.
PyRoundTo(x, scale) == Num(PyRound(Num(x.n * scale, x.d)), scale)

\* int(x) of a finite number: truncation toward zero.
Trunc(x) == IF x.n >= 0 THEN x.n \div x.d ELSE -((-x.n) \div x.d)

\* float(v): [ok, val, msg]; the failures are ValueError / TypeError /
\* OverflowError, all of them an Exception.
PyFloat(v) ==
    CASE v.k = "text" -> [ok |-> FALSE, val |-> v,
                          msg |-> "could not convert string to float: 'abc'"]
      [] v.k = "huge" -> [ok |-> FALSE, val |-> v,
                          msg |-> "int too large to convert to float"]
      [] OTHER        -> [ok |-> TRUE, val |-> v, msg |-> ""]

\* int(v): [ok, val, msg].
PyInt(v) ==
    CASE v.k = "text" -> [ok |-> FALSE, val |-> v,
                          msg |-> "invalid literal for int() with base 10: 'abc'"]
      [] v.k = "inf"  -> [ok |-> FALSE, val |-> v,
                          msg |-> "cannot convert float infinity to integer"]
      [] v.k = "nan"  -> [ok |-> FALSE, val |-> v,
                          msg |-> "cannot convert float NaN to integer"]
      [] v.k = "huge" -> [ok |-> TRUE, val |-> v, msg |-> ""]
      [] OTHER        -> [ok |-> TRUE, val |-> Num(Trunc(v), 1), msg |-> ""]

Zero == Num(0, 1)
One  == Num(1, 1)

\* A lookup whose default is 1 instead of the caller's.
Get_DefaultOne(inputs, key, default) ==
    IF key \in DOMAIN inputs THEN inputs[key] ELSE One

\* inputs.get(key, default)
Get(inputs, key, default) ==
    IF key \in DOMAIN inputs THEN inputs[key] ELSE default

\* ----- _sanitize_and_cast (lines 39-51) -----
\* [ok |-> TRUE, ci |-> CreditInputs] or [ok |-> FALSE, msg |-> str(ValueError)].
NoInputs == [total_asset_value |-> Zero, monthly_salary |-> Zero,
             work_experiences |-> Zero, age |-> Zero]

_sanitize_and_cast(inputs) ==
    LET asset  == PyFloat(Get(inputs, "total_asset_value", Zero))
        salary == PyFloat(Get(inputs, "monthly_salary", Zero))
        exp    == PyInt(Get(inputs, "work_experiences", Zero))
        age    == PyInt(Get(inputs, "age", Zero))
        bad(m) == [ok |-> FALSE, ci |-> NoInputs, msg |-> m]
    IN  IF ~asset.ok THEN bad("Invalid input types: " \o asset.msg)
        ELSE IF ~salary.ok THEN bad("Invalid input types: " \o salary.msg)
        ELSE IF ~exp.ok THEN bad("Invalid input types: " \o exp.msg)
        ELSE IF ~age.ok THEN bad("Invalid input types: " \o age.msg)
        ELSE IF \/ PyLess(asset.val, Zero) \/ PyLess(salary.val, Zero)
                \/ PyLess(exp.val, Zero) \/ PyLess(age.val, Zero)
        THEN bad("Numeric inputs must be non-negative.")
        ELSE [ok |-> TRUE,
              ci |-> [total_asset_value |-> asset.val,
                      monthly_salary |-> salary.val,
                      work_experiences |-> exp.val,
                      age |-> age.val],
              msg |-> ""]

\* ----- _compute_scores (lines 53-99) -----
\* The rule with a strict score threshold for "high-value".
Classification_StrictScore(credit_score, age) ==
    IF credit_score > 720 /\ PyLe(Num(25, 1), age) /\ PyLe(age, Num(65, 1))
    THEN [classification |-> "high-value",
          reason_class |-> "Diem cao va do tuoi trong nguong on dinh thu nhap/tieu dung."]
    ELSE IF credit_score >= 640 /\ PyLe(Num(21, 1), age) /\ PyLe(age, Num(70, 1))
    THEN [classification |-> "standard",
          reason_class |-> "Diem kha va do tuoi phu hop, rui ro trung binh."]
    ELSE [classification |-> "risk",
          reason_class |-> "Diem thap hoac do tuoi ngoai nguong uu tien, rui ro cao hon."]

\* The classification rule of lines 76-84 with its rationale.
Classification(credit_score, age) ==
    IF credit_score >= 720 /\ PyLe(Num(25, 1), age) /\ PyLe(age, Num(65, 1))
    THEN [classification |-> "high-value",
          reason_class |-> "Diem cao va do tuoi trong nguong on dinh thu nhap/tieu dung."]
    ELSE IF credit_score >= 640 /\ PyLe(Num(21, 1), age) /\ PyLe(age, Num(70, 1))
    THEN [classification |-> "standard",
          reason_class |-> "Diem kha va do tuoi phu hop, rui ro trung binh."]
    ELSE [classification |-> "risk",
          reason_class |-> "Diem thap hoac do tuoi ngoai nguong uu tien, rui ro cao hon."]

\* min(value / cap, 1.0), lines 60-62.
Norm(value, cap) == PyMin(FDiv(value, Num(cap, 1)), One)

\* int(round(max(BASE_SCORE, min(raw_score, BASE_SCORE + BONUS_POOL)))), line 73.
CreditScore(raw_score) ==
    PyRound(PyMax(Num(BASE_SCORE, 1),
                  PyMin(raw_score, Num(BASE_SCORE + BONUS_POOL, 1))))

\* One entry of "components", lines 92-94.
Component(value, cap, norm, score) ==
    [value |-> value, cap |-> cap,
     norm |-> PyRoundTo(norm, 1000000), points |-> PyRoundTo(score, 100)]

\* [raised |-> TRUE, exc, msg] when float(ci.work_experiences) overflows
\* (line 57), else [raised |-> FALSE, calc |-> the returned dict].  "weights"
\* is the module-level dict itself, returned by reference.
_compute_scores(ci) ==
    LET asset  == PyMax(Zero, ci.total_asset_value)
        salary == PyMax(Zero, ci.monthly_salary)
        fexp   == PyFloat(ci.work_experiences)
        exp    == PyMax(Zero, fexp.val)
        age    == PyMax(Zero, ci.age)
        asset_norm  == Norm(asset, ASSET_CAP)
        salary_norm == Norm(salary, SALARY_CAP)
        exp_norm    == Norm(exp, EXP_CAP)
        asset_points  == FMul(Num(BONUS_POOL, 1), WEIGHTS["asset"])
        salary_points == FMul(Num(BONUS_POOL, 1), WEIGHTS["salary"])
        exp_points    == FMul(Num(BONUS_POOL, 1), WEIGHTS["experience"])
        asset_score  == FMul(asset_norm, asset_points)
        salary_score == FMul(salary_norm, salary_points)
        exp_score    == FMul(exp_norm, exp_points)
        raw_score == FAdd(FAdd(FAdd(Num(BASE_SCORE, 1), asset_score),
                               salary_score), exp_score)
        credit_score == CreditScore(raw_score)
        cls == Classification(credit_score, age)
    IN  IF ~fexp.ok
        THEN [raised |-> TRUE, exc |-> "OverflowError", msg |-> fexp.msg]
        ELSE [raised |-> FALSE,
              calc |-> [credit_score |-> credit_score,
                        raw_score |-> raw_score,
                        classification |-> cls.classification,
                        reason_class |-> cls.reason_class,
                        components |->
                          [asset |-> Component(asset, ASSET_CAP, asset_norm, asset_score),
                           salary |-> Component(salary, SALARY_CAP, salary_norm, salary_score),
                           experience |-> Component(exp, EXP_CAP, exp_norm, exp_score)],
                        base |-> BASE_SCORE,
                        bonus_pool |-> BONUS_POOL,
                        weights |-> "WEIGHTS"]]

\* ----- the tools (lines 102-167) -----
\* What a call does: it returns a dict or lets an exception escape.
Return(value) == [outcome |-> "return", value |-> value]
Raise(c) == [outcome |-> "raise",
             value |-> [exception |-> c.exc, message |-> c.msg]]
InvalidInput(msg) == Return([error |-> "invalid_input", details |-> msg])

\* int(WEIGHTS[key] * 100) of the explanation text, line 133.
Percent(key) == Trunc(FMul(WEIGHTS[key], Num(100, 1)))

classify_customer(inputs) ==
    LET s == _sanitize_and_cast(inputs)
        c == _compute_scores(s.ci)
        calc == c.calc
        reasons ==
          [credit_scoring |->
             [base |-> BASE_SCORE,
              components |->
                [asset_score |-> calc.components.asset.points,
                 salary_score |-> calc.components.salary.points,
                 experience_score |-> calc.components.experience.points],
              normalization |->
                [asset_norm |-> calc.components.asset.norm,
                 salary_norm |-> calc.components.salary.norm,
                 experience_norm |-> calc.components.experience.norm,
                 caps |-> [asset_cap |-> ASSET_CAP,
                           salary_cap |-> SALARY_CAP,
                           experience_cap |-> EXP_CAP]],
              weights |-> "WEIGHTS",
              explanation |-> [base |-> BASE_SCORE,
                               asset |-> Percent("asset"),
                               salary |-> Percent("salary"),
                               experience |-> Percent("experience"),
                               bonus_pool |-> BONUS_POOL]],
           classification |->
             [rule |-> "high-value neu score >= 720 va 25-65; standard neu score >= 640 va 21-70; else risk.",
              age |-> s.ci.age,
              reason |-> calc.reason_class]]
    IN  IF ~s.ok THEN InvalidInput(s.msg)
        ELSE IF c.raised THEN Raise(c)
        ELSE Return([credit_score |-> calc.credit_score,
                     classification |-> calc.classification,
                     reasons |-> reasons])

score_breakdown(inputs) ==
    LET s == _sanitize_and_cast(inputs)
        c == _compute_scores(s.ci)
        calc == c.calc
    IN  IF ~s.ok THEN InvalidInput(s.msg)
        ELSE IF c.raised THEN Raise(c)
        ELSE Return([credit_score |-> calc.credit_score,
                     raw_score |-> calc.raw_score,
                     components |-> calc.components,
                     weights |-> calc.weights,
                     base |-> calc.base,
                     bonus_pool |-> calc.bonus_pool])

\* ----- the inputs a caller sends -----
Keys == {"total_asset_value", "monthly_salary", "work_experiences", "age"}
UnknownKey == "note"

Special == {Text, Huge, Inf, NaN}
Negative == {Num(-1, 1), Num(-1, 2)}

AssetValues ==
    Negative \cup Special
    \cup {Zero, Num(9200, 1), Num(ASSET_CAP, 1)}
    \cup {Num(ASSET_CAP + i * ASSET_CAP, 1) : i \in 1..MaxOver}
SalaryValues ==
    Negative \cup Special
    \cup {Zero, Num(140, 1), Num(SALARY_CAP, 1)}
    \cup {Num(SALARY_CAP + i * SALARY_CAP, 1) : i \in 1..MaxOver}
ExpValues ==
    Negative \cup Special
    \cup {Zero, One, Num(3, 2), Num(3, 1), Num(5, 1), Num(EXP_CAP, 1)}
    \cup {Num(EXP_CAP + i, 1) : i \in 1..MaxOver}
AgeValues ==
    Negative \cup Special
    \cup {Zero, Num(20, 1), Num(21, 1), Num(24, 1), Num(25, 1), Num(30, 1),
          Num(65, 1), Num(66, 1), Num(70, 1)}
    \cup {Num(70 + i, 1) : i \in 1..MaxOver}

ValuesOf(key) ==
    CASE key = "total_asset_value" -> AssetValues
      [] key = "monthly_salary"    -> SalaryValues
      [] key = "work_experiences"  -> ExpValues
      [] key = "age"               -> AgeValues
      [] OTHER                     -> {Text}

\* A key the caller leaves out.
Missing == [k |-> "missing", n |-> 0, d |-> 1]

\* The mapping that holds the chosen value of every key not left out.
Mapping(c) == [key \in {x \in DOMAIN c : c[x] # Missing} |-> c[key]]

\* Every mapping from some of the keys (and maybe an unknown key) to values.
Inputs ==
    {Mapping([total_asset_value |-> a, monthly_salary |-> s,
              work_experiences |-> e, age |-> g, note |-> u]) :
        a \in AssetValues \cup {Missing}, s \in SalaryValues \cup {Missing},
        e \in ExpValues \cup {Missing}, g \in AgeValues \cup {Missing},
        u \in ValuesOf(UnknownKey) \cup {Missing}}

\* ----- the state machine -----
DefaultWeights == [asset |-> Num(1, 2), salary |-> Num(3, 10), experience |-> Num(1, 5)]

NoResponse == [outcome |-> "none", value |-> <<>>]

Init ==
    /\ WEIGHTS = DefaultWeights
    /\ request \in Inputs
    /\ tool = "none"
    /\ response = NoResponse

ClassifyCustomer ==
    /\ tool' = "classify_customer"
    /\ response' = classify_customer(request)
    /\ UNCHANGED <<WEIGHTS, request>>

ScoreBreakdown ==
    /\ tool' = "score_breakdown"
    /\ response' = score_breakdown(request)
    /\ UNCHANGED <<WEIGHTS, request>>

Next == ClassifyCustomer \/ ScoreBreakdown

Spec == Init /\ [][Next]_vars

\* ----- a caller in the same process -----
\* The dicts the tools return hold the module-level WEIGHTS dict itself
\* (lines 98, 132, 164), so a caller that imports the module and assigns
\* into result["weights"] assigns into the configuration.
WeightKeys == {"asset", "salary", "experience"}
CallerValues == {One}

HoldsWeights ==
    /\ response.outcome = "return"
    /\ "credit_score" \in DOMAIN response.value

CallerAssignsWeight ==
    /\ HoldsWeights
    /\ \E key \in WeightKeys, v \in CallerValues :
          WEIGHTS' = [WEIGHTS EXCEPT ![key] = v]
    /\ UNCHANGED <<request, tool, response>>

NextCaller == Next \/ CallerAssignsWeight

\* The requests of the in-process caller: every key present.
CallerInputs ==
    {Mapping([total_asset_value |-> a, monthly_salary |-> s,
              work_experiences |-> e, age |-> g, note |-> Missing]) :
        a \in {Zero, Num(9200, 1), Num(ASSET_CAP, 1)},
        s \in {Zero, Num(140, 1), Num(SALARY_CAP, 1)},
        e \in {Zero, One, Num(5, 1), Num(EXP_CAP, 1)},
        g \in {Num(-1, 1), Num(21, 1), Num(30, 1), Text}}

InitCaller ==
    /\ WEIGHTS = DefaultWeights
    /\ request \in CallerInputs
    /\ tool = "none"
    /\ response = NoResponse

SpecCaller == InitCaller /\ [][NextCaller]_vars

\* ======================= the claims =======================
Called == tool # "none"
IsError(r) == r.outcome = "return" /\ "error" \in DOMAIN r.value
IsResult(r) == r.outcome = "return" /\ "credit_score" \in DOMAIN r.value
Sanitized == _sanitize_and_cast(request)
CallTool(t, inputs) ==
    IF t = "classify_customer" THEN classify_customer(inputs)
    ELSE score_breakdown(inputs)

\* C1: every input that passes sanitization gets a credit_score, an integer
\* with BASE_SCORE <= credit_score <= BASE_SCORE + BONUS_POOL, from both tools.
C1_ScoreWithinBounds ==
    (Called /\ Sanitized.ok) =>
        /\ IsResult(response)
        /\ response.value.credit_score \in Int
        /\ BASE_SCORE <= response.value.credit_score
        /\ response.value.credit_score <= BASE_SCORE + BONUS_POOL

\* C2: a negative (integral or fractional) or non-numeric value in any of the
\* four fields makes both tools return {error: "invalid_input", details}.
IsNegative(v) == v.k = "num" /\ v.n < 0
C2_NegativeOrNonNumericRejected ==
    (Called /\ \E key \in Keys \cap DOMAIN request :
                  IsNegative(request[key]) \/ request[key].k = "text") =>
        /\ IsError(response)
        /\ response.value.error = "invalid_input"
        /\ DOMAIN response.value = {"error", "details"}

\* C3: on every input the two tools agree: both return the invalid_input
\* error with the same details, or both return a result with the same
\* credit_score.
C3_ToolsAgree ==
    Called =>
        LET other == CallTool(IF tool = "classify_customer" THEN "score_breakdown"
                              ELSE "classify_customer", request)
        IN  \/ /\ IsError(response) /\ IsError(other)
               /\ response.value.error = "invalid_input"
               /\ response.value = other.value
            \/ /\ IsResult(response) /\ IsResult(other)
               /\ response.value.credit_score = other.value.credit_score

\* C4: the label of every successful classify_customer call is the one the
\* ordered rule gives for the call's own (credit_score, age): high-value iff
\* score >= 720 and 25 <= age <= 65; else standard iff score >= 640 and
\* 21 <= age <= 70; else risk.  The label is therefore one of the three and a
\* function of (credit_score, age).
AgeWithin(age, lo, hi) == age.k = "num" /\ lo * age.d <= age.n /\ age.n <= hi * age.d
C4_ClassificationRule ==
    (tool = "classify_customer" /\ IsResult(response)) =>
        LET score == response.value.credit_score
            age   == response.value.reasons.classification.age
            label == response.value.classification
            high  == score >= 720 /\ AgeWithin(age, 25, 65)
            std   == score >= 640 /\ AgeWithin(age, 21, 70)
        IN  /\ label \in {"high-value", "standard", "risk"}
            /\ (label = "high-value") <=> high
            /\ (label = "standard") <=> (~high /\ std)
            /\ (label = "risk") <=> (~high /\ ~std)

C4_Witness ==
    /\ tool = "classify_customer" /\ IsResult(response)
    /\ response.value.credit_score = 720
    /\ response.value.classification = "high-value"
    /\ response.value.reasons.classification.age = Num(65, 1)

\* C5: raising one of total_asset_value, monthly_salary, work_experiences of a
\* valid input, the others fixed, gives another valid input whose
\* credit_score is at least as large.
ScoredKeys == {"total_asset_value", "monthly_salary", "work_experiences"}
With(inputs, key, v) ==
    [x \in DOMAIN inputs \cup {key} |-> IF x = key THEN v ELSE inputs[x]]
C5_Monotone ==
    (Called /\ Sanitized.ok) =>
        \A key \in ScoredKeys : \A v \in ValuesOf(key) :
            LET raised == With(request, key, v)
                later  == CallTool(tool, raised)
            IN  (/\ _sanitize_and_cast(raised).ok
                 /\ PyLess(IF key \in DOMAIN request THEN request[key] ELSE Zero, v)) =>
                    /\ IsResult(response) /\ IsResult(later)
                    /\ response.value.credit_score <= later.value.credit_score

\* C6: a factor whose value is at or above its cap has normalized ratio 1 and
\* contributes BONUS_POOL * weight (150, 90, 60); raising it further changes
\* neither the contribution nor credit_score; all three at their caps with
\* age 30 give credit_score 800 and "high-value".
FactorOf(key) ==
    CASE key = "total_asset_value" -> [name |-> "asset", cap |-> ASSET_CAP, points |-> 150]
      [] key = "monthly_salary"    -> [name |-> "salary", cap |-> SALARY_CAP, points |-> 90]
      [] key = "work_experiences"  -> [name |-> "experience", cap |-> EXP_CAP, points |-> 60]
AtCap(key) == PyLe(Num(FactorOf(key).cap, 1), Sanitized.ci[key])
C6_Saturation ==
    (tool = "score_breakdown" /\ Sanitized.ok) =>
        /\ \A key \in ScoredKeys : AtCap(key) =>
              /\ IsResult(response)
              /\ response.value.components[FactorOf(key).name].norm = One
              /\ response.value.components[FactorOf(key).name].points
                    = Num(FactorOf(key).points, 1)
              /\ \A v \in ValuesOf(key) :
                    (/\ _sanitize_and_cast(With(request, key, v)).ok
                     /\ PyLess(Sanitized.ci[key], v)) =>
                        LET later == score_breakdown(With(request, key, v))
                        IN  /\ IsResult(later)
                            /\ later.value.components[FactorOf(key).name]
                                 = [response.value.components[FactorOf(key).name]
                                      EXCEPT !.value = later.value.components[FactorOf(key).name].value]
                            /\ later.value.credit_score = response.value.credit_score
        /\ ((\A key \in ScoredKeys : AtCap(key)) /\ Sanitized.ci.age = Num(30, 1)) =>
              /\ IsResult(response)
              /\ response.value.credit_score = 800
              /\ classify_customer(request).value.classification = "high-value"

\* C7: a missing key behaves exactly like the key present with value 0 and
\* unknown keys are ignored; {} gives credit_score BASE_SCORE and "risk"; so
\* does every input whose three scored factors are 0, whatever its age.
C7_MissingIsZero ==
    Called =>
        LET filled == [key \in Keys |->
                          IF key \in DOMAIN request THEN request[key] ELSE Zero]
            label(r) == classify_customer(r).value.classification
        IN  /\ response = CallTool(tool, filled)
            /\ (DOMAIN request = {}) =>
                  /\ IsResult(response)
                  /\ response.value.credit_score = BASE_SCORE
                  /\ label(request) = "risk"
            /\ (/\ Sanitized.ok
                /\ \A key \in ScoredKeys : filled[key] = Zero) =>
                  /\ IsResult(response)
                  /\ response.value.credit_score = BASE_SCORE
                  /\ label(request) = "risk"

C7_Witness ==
    /\ DOMAIN request = {}
    /\ tool = "classify_customer"
    /\ IsResult(response)
    /\ response.value.credit_score = 500
    /\ response.value.classification = "risk"

\* C8: the configuration is not exposed for mutation: whatever a caller does
\* to the values the tools returned, a later call with the same input to the
\* same tool returns what the earlier call returned.
C8_ResultDependsOnlyOnInput ==
    [][(Called /\ tool' = tool /\ request' = request) => response' = response]_vars

\* C9: for every valid input raw_score lies in [BASE_SCORE, BASE_SCORE +
\* BONUS_POOL], so the clamp of line 73 leaves it unchanged.
C9_ClampIsIdentity ==
    (tool = "score_breakdown" /\ Sanitized.ok) =>
        /\ IsResult(response)
        /\ PyLe(Num(BASE_SCORE, 1), response.value.raw_score)
        /\ PyLe(response.value.raw_score, Num(BASE_SCORE + BONUS_POOL, 1))

\* C10: credit_score is the integer nearest to the clamped raw_score
\* (|credit_score - raw_score| <= 1/2) and an exact tie goes to the even
\* integer: 501.5 -> 502, 504.5 -> 504, 719.5 -> 720, 639.5 -> 640.
C10_RoundHalfEven ==
    /\ (tool = "score_breakdown" /\ IsResult(response)) =>
          LET raw  == response.value.raw_score
              lo   == BASE_SCORE * raw.d
              hi   == (BASE_SCORE + BONUS_POOL) * raw.d
              n    == IF raw.n < lo THEN lo ELSE IF raw.n > hi THEN hi ELSE raw.n
              dist == Abs(response.value.credit_score * raw.d - n)
          IN  /\ 2 * dist <= raw.d
              /\ (2 * dist = raw.d) => response.value.credit_score % 2 = 0
              /\ (raw = Num(1003, 2)) => response.value.credit_score = 502
              /\ (raw = Num(1009, 2)) => response.value.credit_score = 504
              /\ (raw = Num(1279, 2)) => response.value.credit_score = 640
    \* No request in whole currency units has raw_score 719.5 (200 * (raw_score
    \* - 500) is a multiple of 3), so that example is put to line 73 directly.
    /\ CreditScore(Num(1439, 2)) = 720

C10_Witness ==
    /\ tool = "score_breakdown"
    /\ IsResult(response)
    /\ response.value.raw_score = Num(1009, 2)
    /\ response.value.credit_score = 504
====
